---- MODULE Spec2Model ----
(***************************************************************************)
(* Branch-and-cut solver for a source-to-sink path problem on a complete   *)
(* digraph (tsp_Project.ipynb): TSPIntance, TSPSolution and                *)
(* BranchAndCutIntegerSolver.  The integer-programming engine is external: *)
(* it is modelled by its contract (candidates satisfy the base constraints *)
(* and every lazy constraint submitted so far; OPTIMAL means the incumbent *)
(* is a cheapest such assignment).                                         *)
(***************************************************************************)
EXTENDS Integers, Sequences, FiniteSets, TLC

VARIABLES
  pc,     \* position of the program
  args,   \* arguments of the pending constructor or call, or NoArgs
  tsp,    \* the TSPIntance: [n, cost], or NoInstance
  x,      \* values of the decision variables self.x: the set of arcs at 1
  lazy,   \* lazy constraints the engine has received through cbLazy
  cb,     \* what the last MIPSOL callback did, or NoCallback
  sol,    \* the TSPSolution returned by solve(), or NoSolution
  err,    \* the exception that ended the program, or NoExc
  out     \* result of the last direct call of a helper, or NoResult

vars == <<pc, args, tsp, x, lazy, cb, sol, err, out>>

\* Python's None where a vertex is expected (__next_vertex's "return None").
None == -1

\* No exception.
NoExc == "none"

\* ---------------------------------------------------------------- bounds
MaxN == 4          \* largest number of vertices of an instance
MaxSpecial == 2    \* at most this many entries of a cost list are negative
Slack == 1         \* a cost list is at most this much too short or too long
ExtractN == 6      \* largest number of vertices of a directly given snapshot
MaxSelected == 4   \* a directly given snapshot selects at most this many arcs

\* ---------------------------------------------------------------- helpers
Range(s) == {s[k] : k \in 1..Len(s)}

Last(s) == s[Len(s)]

RECURSIVE KSubsets(_, _)
KSubsets(S, k) ==
  IF k = 0 THEN {{}}
  ELSE LET smaller == KSubsets(S, k - 1)
       IN  smaller \cup {T \cup {e} : T \in smaller, e \in S}

RECURSIVE SumOver(_, _)
SumOver(f, S) ==
  IF S = {} THEN 0
  ELSE LET e == CHOOSE e \in S : TRUE
       IN  f[e] + SumOver(f, S \ {e})

\* ---------------------------------------------------------------- TSPIntance
vertices(n) == 0..(n - 1)

\* The (i, j) pairs, i # j, in the order of the two nested loops of __init__.
LexArcs(n) ==
  [k \in 1..(n * (n - 1)) |->
     LET i == (k - 1) \div (n - 1)
         r == (k - 1) % (n - 1)
     IN  <<i, IF r < i THEN r ELSE r + 1>>]

arcs(n) == {<<i, j>> \in vertices(n) \X vertices(n) : i # j}

\* The loop of __init__: cost[(i, j)] = costs[cost_index]; cost_index += 1.
\* Reading past the end of costs raises IndexError; entries left over are
\* never looked at.
RECURSIVE FillCost(_, _, _, _)
FillCost(order, costs, k, acc) ==
  IF k > Len(order) THEN [exc |-> NoExc, cost |-> acc]
  ELSE IF k > Len(costs) THEN [exc |-> "IndexError", cost |-> acc]
  ELSE FillCost(order, costs, k + 1, acc @@ (order[k] :> costs[k]))

TSPIntanceInit(a) ==
  IF a.lenX # a.lenY
  THEN [exc |-> "AssertionError", n |-> 0, cost |-> <<>>]
  ELSE LET n == a.lenX
           filled == FillCost(LexArcs(n), a.costs, 1, <<>>)
       IN  [exc |-> filled.exc, n |-> n, cost |-> filled.cost]

\* ---------------------------------------------------------------- TSPSolution
\* sum(tsp.cost[i, j] for i in tour[:-1] for j in tour[1:]): two nested
\* loops over all pairs, a KeyError on the first pair that is no arc.
DerivedPairs(tour) ==
  IF Len(tour) < 2 THEN <<>>
  ELSE LET m == Len(tour) - 1
       IN  [k \in 1..(m * m) |->
              <<tour[((k - 1) \div m) + 1], tour[((k - 1) % m) + 2]>>]

RECURSIVE SumPairs(_, _, _)
SumPairs(cost, pairs, k) ==
  IF k > Len(pairs) THEN [exc |-> NoExc, cost |-> 0]
  ELSE IF pairs[k] \notin DOMAIN cost THEN [exc |-> "KeyError", cost |-> 0]
  ELSE LET rest == SumPairs(cost, pairs, k + 1)
       IN  IF rest.exc # NoExc THEN rest
           ELSE [exc |-> NoExc, cost |-> cost[pairs[k]] + rest.cost]

\* TSPSolution(tour, **kwargs): kw is the record of the keyword arguments
\* given, so 'cost' in kwargs is "cost" \in DOMAIN kw.
TSPSolutionInit(tour, kw) ==
  IF "cost" \notin DOMAIN kw /\ "instance" \notin DOMAIN kw
  THEN [exc |-> "AssertionError", tour |-> <<>>, cost |-> 0]
  ELSE IF "cost" \in DOMAIN kw
  THEN [exc |-> NoExc, tour |-> tour, cost |-> kw.cost]
  ELSE LET s == SumPairs(kw.instance.cost, DerivedPairs(tour), 1)
       IN  IF s.exc # NoExc
           THEN [exc |-> s.exc, tour |-> <<>>, cost |-> 0]
           ELSE [exc |-> NoExc, tour |-> tour, cost |-> s.cost]

\* ---------------------------------------------------------------- subtour extraction
\* The value the accessor (cbGetSolution in a callback, .X afterwards) gives
\* for self.x[i, j].
Value(snap, i, j) == IF <<i, j>> \in snap THEN 1 ELSE 0

\* __next_vertex: the first j # i, ascending, with x > 0.5; None when there
\* is none.  Called with i = None it fails on self.x[None, j] (KeyError).
NextVertex(n, snap, i) ==
  LET hits == {j \in vertices(n) : j # i /\ 2 * Value(snap, i, j) > 1}
  IN  IF hits = {} THEN None
      ELSE CHOOSE j \in hits : \A h \in hits : j <= h

\* The while loop of __tour_starting_at.  The loop's only state is current,
\* so a loop that has run n times without leaving has appended n vertices
\* other than i, one of them twice, and runs forever: status "diverges".
RECURSIVE TourLoop(_, _, _, _, _, _)
TourLoop(n, snap, i, tour, current, fuel) ==
  IF current = i THEN [status |-> "returned", exc |-> NoExc, tour |-> tour]
  ELSE IF current = None
  THEN [status |-> "raised", exc |-> "KeyError", tour |-> Append(tour, None)]
  ELSE IF fuel = 0
  THEN [status |-> "diverges", exc |-> NoExc, tour |-> Append(tour, current)]
  ELSE IF current = n - 1
  THEN [status |-> "returned", exc |-> NoExc, tour |-> Append(tour, current)]
  ELSE TourLoop(n, snap, i, Append(tour, current),
                NextVertex(n, snap, current), fuel - 1)

\* __tour_starting_at with the sink test before the append: the walk stops
\* at the sink without recording it.
RECURSIVE TourLoopSinkDropped(_, _, _, _, _, _)
TourLoopSinkDropped(n, snap, i, tour, current, fuel) ==
  IF current = i THEN [status |-> "returned", exc |-> NoExc, tour |-> tour]
  ELSE IF current = None
  THEN [status |-> "raised", exc |-> "KeyError", tour |-> Append(tour, None)]
  ELSE IF fuel = 0
  THEN [status |-> "diverges", exc |-> NoExc, tour |-> Append(tour, current)]
  ELSE IF current = n - 1
  THEN [status |-> "returned", exc |-> NoExc, tour |-> tour]
  ELSE TourLoopSinkDropped(n, snap, i, Append(tour, current),
                           NextVertex(n, snap, current), fuel - 1)

TourStartingAtSinkDropped(n, snap, i) ==
  LET current == NextVertex(n, snap, i)
  IN  IF current = None
      THEN [status |-> "returned", exc |-> NoExc, tour |-> <<i>>]
      ELSE TourLoopSinkDropped(n, snap, i, <<i>>, current, n)

TourStartingAt(n, snap, i) ==
  LET current == NextVertex(n, snap, i)
  IN  IF current = None
      THEN [status |-> "returned", exc |-> NoExc, tour |-> <<i>>]
      ELSE TourLoop(n, snap, i, <<i>>, current, n)

\* __add_sec_for: "for i, j in subtour" unpacks each element of subtour, a
\* vertex (an int), into two names: TypeError on the first element, before
\* cbLazy is reached.  Nothing is submitted.
AddSecFor(subtour) ==
  IF Len(subtour) > 0
  THEN [exc |-> "TypeError", submitted |-> <<>>]
  ELSE [exc |-> NoExc, submitted |-> <<[arcs |-> {}, rhs |-> 0 - 1]>>]

\* The while loop of __find_subtours.  next(iter(remaining)) is whatever the
\* set yields first; the language leaves the order of a set open (CPython
\* yields the smallest vertex of these sets), so every start in remaining is
\* a possible choice and the result is the set of outcomes over the choices.
\* emitted lists the subtours handed to __add_sec_for, in order.
RECURSIVE SubtourLoop(_, _, _, _, _)
SubtourLoop(n, snap, remaining, emitted, submitted) ==
  IF remaining = {}
  THEN {[status |-> "returned", exc |-> NoExc,
         emitted |-> emitted, submitted |-> submitted]}
  ELSE UNION {
    LET t == TourStartingAt(n, snap, start)
    IN  IF t.status # "returned"
        THEN {[status |-> t.status, exc |-> t.exc,
               emitted |-> emitted, submitted |-> submitted]}
        ELSE IF t.tour = <<start>> \/ Last(t.tour) = n - 1 \/ Len(t.tour) < 2
        THEN {[status |-> "returned", exc |-> NoExc,
               emitted |-> emitted, submitted |-> submitted]}
        ELSE LET sec == AddSecFor(t.tour)
             IN  IF sec.exc # NoExc
                 THEN {[status |-> "raised", exc |-> sec.exc,
                        emitted |-> Append(emitted, t.tour),
                        submitted |-> submitted \o sec.submitted]}
                 ELSE SubtourLoop(n, snap, remaining \ Range(t.tour),
                                  Append(emitted, t.tour),
                                  submitted \o sec.submitted)
    : start \in remaining }

\* __find_subtours(where): nothing happens outside MIPSOL.
FindSubtours(where, n, snap) ==
  IF where # "MIPSOL"
  THEN {[status |-> "returned", exc |-> NoExc, emitted |-> <<>>, submitted |-> <<>>]}
  ELSE SubtourLoop(n, snap, vertices(n), <<>>, <<>>)

\* ---------------------------------------------------------------- the base model
OutDegree(xs, i) == Cardinality({a \in xs : a[1] = i})

InDegree(xs, j) == Cardinality({a \in xs : a[2] = j})

\* __build_model: the six addConstr / addConstrs, in order.
BuildModel(n, xs) ==
  /\ OutDegree(xs, 0) = 1
  /\ InDegree(xs, n - 1) = 1
  /\ \A i \in 1..(n - 2) : OutDegree(xs, i) = InDegree(xs, i)
  /\ OutDegree(xs, n - 1) = 0
  /\ InDegree(xs, 0) = 0
  /\ \A i \in vertices(n) : OutDegree(xs, i) <= 1

\* The 0/1 assignments of the binary variables, as sets of arcs at 1.  The
\* last constraint of BuildModel allows at most one arc out of a vertex, so
\* only the assignments given by a partial successor map can satisfy it, and
\* only these are enumerated (all 2^(n(n-1)) others fail BuildModel).
Assignments(n) ==
  {{<<i, s[i]>> : i \in {v \in vertices(n) : s[v] # None}} :
     s \in {t \in [vertices(n) -> vertices(n) \cup {None}] :
              \A v \in vertices(n) : t[v] # v}}

BaseFeasible == [n \in 1..MaxN |-> {xs \in Assignments(n) : BuildModel(n, xs)}]

\* A lazy constraint: the variables of c.arcs sum to at most c.rhs.
Satisfies(xs, c) == Cardinality(xs \cap c.arcs) <= c.rhs

\* The engine's feasible region: the base model and the lazy constraints.
Feasible(n, lz) == {xs \in BaseFeasible[n] : \A c \in lz : Satisfies(xs, c)}

\* The objective with the cost of each arc read at the reversed arc.
ObjValReversed(cost, xs) == SumOver([a \in xs |-> cost[<<a[2], a[1]>>]], xs)

\* The objective: addVars(..., obj=self.tsp.cost), minimised.
ObjVal(cost, xs) == SumOver(cost, xs)

\* The outcomes of the MIPSOL callback on each assignment the engine can
\* report as a candidate, tabulated.
MipsolCallback ==
  [n \in 1..MaxN |-> [xs \in BaseFeasible[n] |-> FindSubtours("MIPSOL", n, xs)]]

\* ---------------------------------------------------------------- states
NoArgs == [op |-> "none"]
NoInstance == [n |-> 0, cost |-> <<>>]
NoCallback == [status |-> "none"]
NoSolution == [exc |-> NoExc, tour |-> <<>>, cost |-> 0]
NoResult == [op |-> "none"]

\* Cost lists of length len: 1 everywhere but at most MaxSpecial entries, -3.
CostLists(len) ==
  {[k \in 1..len |-> IF k \in S THEN 0 - 3 ELSE 1] : S \in KSubsets(1..len, MaxSpecial)}

CostLengths(n) ==
  {len \in (n * (n - 1) - Slack)..(n * (n - 1) + Slack) : len >= 0}

\* The arguments TSPIntance(x, y, costs) is called with: coordinate arrays
\* of equal or different length, a cost list of the right length or not.
Init ==
  /\ pc = "start"
  /\ \E n \in 1..MaxN :
       \E m \in {k \in {n - 1, n, n + 1} : k >= 0} :
         \E len \in CostLengths(n) :
           \E c \in CostLists(len) :
             args = [op |-> "TSPIntance", lenX |-> n, lenY |-> m, costs |-> c]
  /\ tsp = NoInstance
  /\ x = {}
  /\ lazy = {}
  /\ cb = NoCallback
  /\ sol = NoSolution
  /\ err = NoExc
  /\ out = NoResult

\* ---------------------------------------------------------------- actions
\* tsp = TSPIntance(x, y, costs)
Construct ==
  /\ pc = "start"
  /\ LET r == TSPIntanceInit(args)
     IN  IF r.exc # NoExc
         THEN pc' = "failed" /\ err' = r.exc /\ tsp' = tsp
         ELSE pc' = "instance" /\ err' = err /\ tsp' = [n |-> r.n, cost |-> r.cost]
  /\ args' = NoArgs
  /\ UNCHANGED <<x, lazy, cb, sol, out>>

\* solver = BranchAndCutIntegerSolver(tsp): the variables and the base model.
SolverInit ==
  /\ pc = "instance"
  /\ pc' = "built"
  /\ x' = {}
  /\ lazy' = {}
  /\ UNCHANGED <<args, tsp, cb, sol, err, out>>

\* solve(), up to the call of optimize.
Solve ==
  /\ pc = "built"
  /\ pc' = "solving"
  /\ UNCHANGED <<args, tsp, x, lazy, cb, sol, err, out>>

\* The engine calls the callback outside MIPSOL: it returns at once.
Poll ==
  /\ pc = "solving"
  /\ \E where \in {"POLLING", "MIPNODE"} :
       \E r \in FindSubtours(where, tsp.n, x) :
         r.status = "returned" /\ r.submitted = <<>>
  /\ UNCHANGED vars

\* The engine reports a candidate better than its incumbent and calls the
\* callback on it (MIPSOL); the callback returns, or raises and the callback
\* stub swallows the exception.  The candidate becomes the incumbent unless
\* a lazy constraint just submitted cuts it off.
MipsolResume ==
  /\ pc = "solving"
  /\ \E cand \in Feasible(tsp.n, lazy) :
       /\ x = {} \/ ObjVal(tsp.cost, cand) < ObjVal(tsp.cost, x)
       /\ \E r \in MipsolCallback[tsp.n][cand] :
            /\ r.status \in {"returned", "raised"}
            /\ cb' = r
            /\ lazy' = lazy \cup Range(r.submitted)
            /\ x' = IF \A c \in Range(r.submitted) : Satisfies(cand, c)
                    THEN cand ELSE x
  /\ UNCHANGED <<pc, args, tsp, sol, err, out>>

\* As MipsolResume, but the exception the callback raised ends the
\* optimization and leaves optimize() and solve().
MipsolAbort ==
  /\ pc = "solving"
  /\ \E cand \in Feasible(tsp.n, lazy) :
       /\ x = {} \/ ObjVal(tsp.cost, cand) < ObjVal(tsp.cost, x)
       /\ \E r \in MipsolCallback[tsp.n][cand] :
            /\ r.status = "raised"
            /\ cb' = r
            /\ lazy' = lazy \cup Range(r.submitted)
            /\ err' = r.exc
  /\ pc' = "failed"
  /\ UNCHANGED <<args, tsp, x, sol, out>>

\* optimize() ends with Status OPTIMAL: no feasible assignment is cheaper
\* than the incumbent.
ProveOptimal ==
  /\ pc = "solving"
  /\ x # {}
  /\ \A other \in Feasible(tsp.n, lazy) :
       ObjVal(tsp.cost, x) <= ObjVal(tsp.cost, other)
  /\ pc' = "optimal"
  /\ UNCHANGED <<args, tsp, x, lazy, cb, sol, err, out>>

\* optimize() ends with Status INFEASIBLE.
ProveInfeasible ==
  /\ pc = "solving"
  /\ Feasible(tsp.n, lazy) = {}
  /\ pc' = "infeasible"
  /\ UNCHANGED <<args, tsp, x, lazy, cb, sol, err, out>>

\* The rest of solve(): the status check and the TSPSolution.
SolveReturn ==
  /\ pc = "optimal"
  /\ LET t == TourStartingAt(tsp.n, x, 0)
         s == TSPSolutionInit(t.tour, [cost |-> ObjVal(tsp.cost, x)])
     IN  /\ t.status # "diverges"
         /\ IF t.status = "raised"
            THEN pc' = "failed" /\ err' = t.exc /\ sol' = sol
            ELSE pc' = "returned" /\ err' = err /\ sol' = s
  /\ UNCHANGED <<args, tsp, x, lazy, cb, out>>

SolveRaise ==
  /\ pc = "infeasible"
  /\ pc' = "failed"
  /\ err' = "RuntimeError"
  /\ UNCHANGED <<args, tsp, x, lazy, cb, sol, out>>

Next ==
  \/ Construct
  \/ SolverInit
  \/ Solve
  \/ Poll
  \/ MipsolResume
  \/ MipsolAbort
  \/ ProveOptimal
  \/ ProveInfeasible
  \/ SolveReturn
  \/ SolveRaise

Spec == Init /\ [][Next]_vars

\* ---------------------------------------------------------------- direct calls
\* The helpers of the subtour extraction called on a snapshot given directly:
\* any 0/1 values of the arcs of n vertices with at most MaxSelected arcs
\* at 1, whether or not they satisfy the base model.
Snapshots(n) == KSubsets(arcs(n), MaxSelected)

InitExtract ==
  /\ pc = "extract"
  /\ args = NoArgs
  /\ \E n \in 2..ExtractN :
       /\ tsp = [n |-> n, cost |-> [a \in arcs(n) |-> 0]]
       /\ x \in Snapshots(n)
  /\ lazy = {}
  /\ cb = NoCallback
  /\ sol = NoSolution
  /\ err = NoExc
  /\ out = NoResult

CallNextVertex ==
  /\ pc = "extract"
  /\ \E i \in vertices(tsp.n) :
       out' = [op |-> "next_vertex", i |-> i, result |-> NextVertex(tsp.n, x, i)]
  /\ pc' = "called"
  /\ UNCHANGED <<args, tsp, x, lazy, cb, sol, err>>

CallTourStartingAt ==
  /\ pc = "extract"
  /\ \E i \in vertices(tsp.n) :
       LET t == TourStartingAt(tsp.n, x, i)
       IN  out' = [op |-> "tour_starting_at", i |-> i,
                   status |-> t.status, exc |-> t.exc, tour |-> t.tour]
  /\ pc' = "called"
  /\ UNCHANGED <<args, tsp, x, lazy, cb, sol, err>>

CallFindSubtours ==
  /\ pc = "extract"
  /\ \E r \in FindSubtours("MIPSOL", tsp.n, x) :
       out' = [op |-> "find_subtours", status |-> r.status, exc |-> r.exc,
               emitted |-> r.emitted, submitted |-> r.submitted]
  /\ pc' = "called"
  /\ UNCHANGED <<args, tsp, x, lazy, cb, sol, err>>

NextExtract ==
  \/ CallNextVertex
  \/ CallTourStartingAt
  \/ CallFindSubtours

SpecExtract == InitExtract /\ [][NextExtract]_vars

\* The sum of cost(tour[k], tour[k+1]) over consecutive pairs.
RECURSIVE PathCost(_, _, _)
PathCost(cost, tour, k) ==
  IF k >= Len(tour) THEN 0
  ELSE cost[<<tour[k], tour[k + 1]>>] + PathCost(cost, tour, k + 1)

\* TSPSolution built for a tour of a valid instance, with an explicit cost
\* and from the instance.
Tours(n) ==
  UNION {{t \in [1..len -> vertices(n)] :
            \A k, l \in 1..len : k # l => t[k] # t[l]} : len \in 1..n}

\* The instances of n vertices that TSPIntance constructs from cost lists
\* of the right length.
Instances(n) ==
  {[n |-> r.n, cost |-> r.cost] :
     r \in {TSPIntanceInit([op |-> "TSPIntance", lenX |-> n, lenY |-> n, costs |-> c]) :
             c \in CostLists(n * (n - 1))}}

InitSolution ==
  /\ pc = "solution"
  /\ \E n \in 2..MaxN : tsp \in Instances(n)
  /\ \E t \in Tours(tsp.n) :
       \E c \in {PathCost(tsp.cost, t, 1), 0} :
         args = [op |-> "TSPSolution", tour |-> t, cost |-> c]
  /\ x = {}
  /\ lazy = {}
  /\ cb = NoCallback
  /\ sol = NoSolution
  /\ err = NoExc
  /\ out = NoResult

\* TSPSolution(tour, cost=c)
SolutionWithCost ==
  /\ pc = "solution"
  /\ sol = NoSolution
  /\ sol' = TSPSolutionInit(args.tour, [cost |-> args.cost])
  /\ UNCHANGED <<pc, args, tsp, x, lazy, cb, err, out>>

\* TSPSolution(tour, instance=tsp)
SolutionWithInstance ==
  /\ pc = "solution"
  /\ out = NoResult
  /\ LET s == TSPSolutionInit(args.tour, [instance |-> tsp])
     IN  out' = [op |-> "TSPSolution", exc |-> s.exc, tour |-> s.tour, cost |-> s.cost]
  /\ UNCHANGED <<pc, args, tsp, x, lazy, cb, err, sol>>

\* TSPSolution(tour)
SolutionWithNeither ==
  /\ pc = "solution"
  /\ LET s == TSPSolutionInit(args.tour, [k \in {} |-> 0])
     IN  err' = s.exc
  /\ pc' = "failed"
  /\ UNCHANGED <<args, tsp, x, lazy, cb, sol, out>>

NextSolution ==
  \/ SolutionWithCost
  \/ SolutionWithInstance
  \/ SolutionWithNeither

SpecSolution == InitSolution /\ [][NextSolution]_vars

\* ---------------------------------------------------------------- properties
NoRepeats(t) == \A k, l \in 1..Len(t) : k # l => t[k] # t[l]

\* A closed cycle of selected arcs among the vertices other than source and
\* sink: a non-empty set of them, each with a selected arc into the set.
HasIllegalSubtour(n, xs) ==
  \E S \in SUBSET (1..(n - 2)) :
    S # {} /\ \A v \in S : \E w \in S : <<v, w>> \in xs

\* The arcs of the closed cycle through the vertices of t, in order.
CycleArcs(t) == {<<t[k], t[(k % Len(t)) + 1]>> : k \in 1..Len(t)}

\* C1 as stated: a returned tour is a Hamiltonian path from 0 to n-1: it
\* starts at 0, ends at n-1 and holds every vertex exactly once.
C1_HamiltonianPath ==
  (pc = "returned" /\ tsp.n >= 2) =>
     /\ sol.tour[1] = 0
     /\ Last(sol.tour) = tsp.n - 1
     /\ NoRepeats(sol.tour)
     /\ Range(sol.tour) = vertices(tsp.n)

\* C1 amended: a returned tour is a simple path of selected arcs from 0 to
\* n-1: it starts at 0, ends at n-1 and holds no vertex twice (it may leave
\* vertices out).
C1_SimplePath ==
  (pc = "returned" /\ tsp.n >= 2) =>
     /\ sol.tour[1] = 0
     /\ Last(sol.tour) = tsp.n - 1
     /\ NoRepeats(sol.tour)
     /\ Range(sol.tour) \subseteq vertices(tsp.n)
     /\ \A k \in 1..(Len(sol.tour) - 1) : <<sol.tour[k], sol.tour[k + 1]>> \in x

\* C1 reached: solve() has returned, on three or more vertices, a path from
\* 0 to n-1 that leaves a vertex out.
C1_Witness ==
  /\ pc = "returned"
  /\ tsp.n >= 3
  /\ Len(sol.tour) < tsp.n
  /\ sol.tour[1] = 0
  /\ Last(sol.tour) = tsp.n - 1

\* C2 as stated: the assignment accepted as optimal has no closed cycle of
\* selected arcs disjoint from source and sink.
C2_OptimalHasNoSubtour ==
  pc = "optimal" => ~HasIllegalSubtour(tsp.n, x)

\* C3 as stated: for n = 3 solve() returns tour [0,1,2] with cost a + d.
C3_OnlyPath012 ==
  (pc = "returned" /\ tsp.n = 3) =>
     /\ sol.tour = <<0, 1, 2>>
     /\ sol.cost = tsp.cost[<<0, 1>>] + tsp.cost[<<1, 2>>]

\* C3 amended: for n = 3 the base model has two solutions, the paths
\* [0,1,2] and [0,2], and solve() returns a cheapest one with its cost:
\* [0,1,2] with a + d only if a + d <= b, [0,2] with b only if b <= a + d.
C3_CheaperOfTwoPaths ==
  (pc = "returned" /\ tsp.n = 3) =>
     LET a == tsp.cost[<<0, 1>>]
         b == tsp.cost[<<0, 2>>]
         d == tsp.cost[<<1, 2>>]
     IN  \/ sol.tour = <<0, 1, 2>> /\ sol.cost = a + d /\ a + d <= b
         \/ sol.tour = <<0, 2>> /\ sol.cost = b /\ b <= a + d

\* C3 reached: for n = 3 solve() has returned the direct path [0,2], strictly
\* cheaper than the path through vertex 1.
C3_Witness ==
  /\ pc = "returned"
  /\ tsp.n = 3
  /\ sol.tour = <<0, 2>>
  /\ sol.cost < 0
  /\ sol.cost < tsp.cost[<<0, 1>>] + tsp.cost[<<1, 2>>]

\* C4 as stated: the cost of a returned Solution is the sum of the arc costs
\* over the consecutive pairs of its tour.
C4_CostIsPathCost ==
  pc = "returned" => sol.cost = PathCost(tsp.cost, sol.tour, 1)

\* C5 as stated: a MIPSOL callback submits, for each illegal subtour it
\* emits and in that order, the inequality "the variables of the arcs of its
\* closed cycle sum to at most |T| - 1", and returns without failing.
C5_OneSecPerSubtour ==
  cb # NoCallback =>
     /\ cb.status = "returned"
     /\ Len(cb.submitted) = Len(cb.emitted)
     /\ \A k \in 1..Len(cb.emitted) :
          k <= Len(cb.submitted) =>
            cb.submitted[k] = [arcs |-> CycleArcs(cb.emitted[k]),
                               rhs |-> Len(cb.emitted[k]) - 1]

\* C6 as stated: the construction of an instance fails and produces no
\* instance when the coordinate arrays differ in length or the cost list is
\* not n*(n-1) long, shorter or longer.
C6_MalformedArgsFail ==
  [][(pc = "start" /\ (args.lenX # args.lenY
                       \/ Len(args.costs) # args.lenX * (args.lenX - 1)))
       => (pc' = "failed" /\ err' # NoExc /\ tsp' = NoInstance)]_vars

\* C7 as stated: a Solution built from the instance reports the sum over
\* the consecutive pairs of its tour, the cost of the Solution built for the
\* same tour with that sum passed explicitly.
C7_DerivedCostRoundTrip ==
  (pc = "solution" /\ out # NoResult) =>
     /\ out.exc = NoExc
     /\ out.cost = PathCost(tsp.cost, args.tour, 1)
     /\ (sol # NoSolution /\ args.cost = PathCost(tsp.cost, args.tour, 1))
          => out.cost = sol.cost

\* C8 as stated: tour_starting_at ends (it returns or raises) within n
\* steps on every snapshot and start vertex, and a tour it returns holds at
\* most n vertices, none of them twice.
C8_TourTerminates ==
  (pc = "called" /\ out.op = "tour_starting_at") =>
     /\ out.status # "diverges"
     /\ out.status = "returned" => (Len(out.tour) <= tsp.n /\ NoRepeats(out.tour))

\* The two 2-vertex cycles on {1,2} and {3,4}.
TwoCycles == {<<1, 2>>, <<2, 1>>, <<3, 4>>, <<4, 3>>}

\* C9 as stated: on the two cycles {1,2} and {3,4} of 6 vertices, a run of
\* find_illegal_subtours that discovers a cycle (its first start is neither
\* source nor sink) emits both, whichever it discovers first.
C9_BothCyclesEmitted ==
  (pc = "called" /\ out.op = "find_subtours" /\ tsp.n = 6 /\ x = TwoCycles
     /\ out.emitted # <<>>) =>
     /\ out.status = "returned"
     /\ {Range(out.emitted[k]) : k \in 1..Len(out.emitted)} = {{1, 2}, {3, 4}}

\* The walk from i comes, at its first step or a later one, to a vertex
\* without a selected outgoing arc before it is back at i or at the sink.
RECURSIVE WalkDangles(_, _, _, _, _)
WalkDangles(n, snap, i, v, fuel) ==
  LET w == NextVertex(n, snap, v)
  IN  IF w = None THEN TRUE
      ELSE IF w = i \/ w = n - 1 \/ fuel = 0 THEN FALSE
      ELSE WalkDangles(n, snap, i, w, fuel - 1)

\* C10 as stated: a walk that comes to a vertex without successor stops
\* there and returns the path walked: it starts with i, holds vertices
\* only, and each vertex is followed by its next_vertex.
C10_DanglingPathReturned ==
  (pc = "called" /\ out.op = "tour_starting_at"
     /\ WalkDangles(tsp.n, x, out.i, out.i, tsp.n)) =>
     /\ out.status = "returned"
     /\ out.tour[1] = out.i
     /\ Range(out.tour) \subseteq vertices(tsp.n)
     /\ \A k \in 1..(Len(out.tour) - 1) :
          out.tour[k + 1] = NextVertex(tsp.n, x, out.tour[k])
     /\ NextVertex(tsp.n, x, Last(out.tour)) = None

====
